---- MODULE Spec2Model ----
(***************************************************************************)
(* PinWeak<T> (src/lib.rs): a weak pointer for Pin<Rc<T>>.  The model is   *)
(* the Rc instantiation of the `implementation!` macro.  A control block   *)
(* (RcBox) holds the strong count, the weak count (with the implicit weak  *)
(* reference that all strong handles share) and the value.  The caller     *)
(* holds bags of pinned strong handles and of PinWeak wrappers; a value    *)
(* built with new_cyclic may hold wrappers of its own.  Every allocation   *)
(* has an identity (id) besides its address, and every handle and wrapper  *)
(* remembers the identity it was made for: an address can be handed out    *)
(* again after a block is freed, an identity cannot.                       *)
(***************************************************************************)
EXTENDS Integers, FiniteSets, Sequences, Bags, TLC

\* ---- bounds ----
MaxBlocks == 2      \* addresses the allocator can hand out
MaxStrong == 2      \* Pin<Rc<T>> handles alive at once
MaxWeak == 2        \* PinWeak<T> wrappers alive at once
MaxNest == 1        \* new_cyclic calls in progress at once (builder nesting)

Blocks == 1..MaxBlocks

\* the values the tests and the doc example store (Foo::new(44), SomeStruct(_, 42))
Values == {42, 44}

\* Weak::default() points at no allocation (a sentinel address, never a block)
Dangling == 0

VARIABLES
    blocks,     \* address -> control block [alloc, id, strong, weak, init, value]
    strongs,    \* bag of the Pin<Rc<T>> handles the caller holds, [blk, id, pinned]
    weaks,      \* bag of the live PinWeak<T> wrappers, [ptr, id, owner, home]
    building,   \* stack of blocks whose new_cyclic builder is running
    last,       \* the last call and what it returned
    arc,        \* sync flavour: the one ArcInner, [alloc, strong, weak, value, drops]
    thr         \* sync flavour: thread -> [pc, n, held, wrappers, res, pinned]

vars == <<blocks, strongs, weaks, building, last, arc, thr>>

\* the state of the single-threaded flavour / of the sync flavour
single == <<blocks, strongs, weaks, building, last>>
sync == <<arc, thr>>

\* the threads of the sync flavour: A owns the strong handles, B holds a
\* wrapper and keeps upgrading it
Threads == {"A", "B"}

FreeArc == [alloc |-> FALSE, strong |-> 0, weak |-> 0, value |-> "none", drops |-> 0]
Thread(held, wrappers) ==
    [pc |-> "idle", n |-> 0, held |-> held, wrappers |-> wrappers, res |-> "none", pinned |-> FALSE]

FreeBlock == [alloc |-> FALSE, id |-> 0, strong |-> 0, weak |-> 0, init |-> FALSE, value |-> 0]
\* the allocator hands out the lowest free address (the addresses are
\* interchangeable, so this loses no behaviour up to renaming them)
FreeB == LET F == {b \in Blocks : ~blocks[b].alloc}
         IN {b \in F : \A c \in F : b <= c}

\* a handle / a wrapper, and a bag with one more or one less of it
Handle(b, id, pinned) == [blk |-> b, id |-> id, pinned |-> pinned]
Wrapper(p, id, owner, home) == [ptr |-> p, id |-> id, owner |-> owner, home |-> home]
One(e) == SetToBag({e})
Lowest(S) == CHOOSE x \in S : \A y \in S : x <= y
Live(B) == BagToSet(B)

\* the identity of the next allocation: one that nothing refers to
Ids == 1..(MaxBlocks + MaxStrong + MaxWeak)
UsedIds ==
    {blocks[b].id : b \in Blocks} \cup {h.id : h \in Live(strongs)} \cup {w.id : w \in Live(weaks)}
NewId == CHOOSE i \in Ids \ UsedIds : \A j \in Ids \ UsedIds : i <= j

Ret(op, p, q, n, ok) == [op |-> op, p |-> p, q |-> q, n |-> n, ok |-> ok]

\* ---- the reference-counting primitives PinWeak wraps ----

\* Rc::pin(v): a fresh control block, one strong, the implicit weak
Rc_pin(bs, b, id, v) ==
    [bs EXCEPT ![b] = [alloc |-> TRUE, id |-> id, strong |-> 1, weak |-> 1,
                       init |-> TRUE, value |-> v]]

Rc_new_uninit_owned(bs, b, id) ==
    [bs EXCEPT ![b] = [alloc |-> TRUE, id |-> id, strong |-> 1, weak |-> 1,
                       init |-> FALSE, value |-> 0]]

\* Rc::new_cyclic, the allocation: no strong yet, the implicit weak, no value
Rc_new_uninit(bs, b, id) ==
    [bs EXCEPT ![b] = [alloc |-> TRUE, id |-> id, strong |-> 0, weak |-> 1,
                       init |-> FALSE, value |-> 0]]

Rc_init_no_strong(bs, b, v) == [bs EXCEPT ![b].init = TRUE, ![b].value = v]

\* Rc::new_cyclic, after data_fn returned v: the value is written and the
\* strong count becomes 1
Rc_init(bs, b, v) == [bs EXCEPT ![b].init = TRUE, ![b].value = v, ![b].strong = 1]

Rc_clone_forgets(bs, b) == bs

\* Rc::clone
Rc_clone(bs, b) == [bs EXCEPT ![b].strong = @ + 1]

Rc_downgrade_forgets(bs, b) == bs
Rc_downgrade_twice(bs, b) == [bs EXCEPT ![b].weak = @ + 2]

\* Rc::downgrade(&rc): one more weak reference
Rc_downgrade(bs, b) == [bs EXCEPT ![b].weak = @ + 1]

Weak_clone_forgets(bs, p) == bs

\* Weak::clone: a dangling Weak clones without touching any count
Weak_clone(bs, p) == IF p = Dangling THEN bs ELSE [bs EXCEPT ![p].weak = @ + 1]

Weak_drop_leaks(bs, p) == IF p = Dangling THEN bs ELSE [bs EXCEPT ![p].weak = @ - 1]

\* drop of a Weak: release one weak reference, free the block with the last one
Weak_drop(bs, p) ==
    IF p = Dangling THEN bs
    ELSE IF bs[p].weak - 1 = 0 THEN [bs EXCEPT ![p] = FreeBlock]
    ELSE [bs EXCEPT ![p].weak = @ - 1]

RECURSIVE Weak_drop_all(_, _)
\* drop the wrappers of the bag F one by one (the fields of a value being destroyed)
Weak_drop_all(bs, F) ==
    IF F = EmptyBag THEN bs
    ELSE LET w == CHOOSE e \in BagToSet(F) : TRUE
         IN Weak_drop_all(Weak_drop(bs, w.ptr), F (-) One(w))

Fields_forgotten(ws, b) == EmptyBag

\* the wrappers stored inside the value of block b
Fields(ws, b) ==
    LET S == {w \in BagToSet(ws) : w.owner = "value" /\ w.home = b}
    IN [w \in S |-> ws[w]]

Rc_drop_frees(bs, ws, b) ==
    IF bs[b].strong - 1 > 0
    THEN [bs |-> [bs EXCEPT ![b].strong = @ - 1], ws |-> ws]
    ELSE [bs |-> [bs EXCEPT ![b] = FreeBlock], ws |-> ws (-) Fields(ws, b)]

\* how many wrappers of its own block the value of block b stores
SelfRefs(ws, b) == CopiesIn(Wrapper(b, blocks[b].id, "value", b), ws)

\* drop of an Rc: with the last strong the value is destroyed (its fields are
\* dropped), then the implicit weak reference is released
Rc_drop(bs, ws, b) ==
    IF bs[b].strong - 1 > 0
    THEN [bs |-> [bs EXCEPT ![b].strong = @ - 1], ws |-> ws]
    ELSE LET f == Fields(ws, b)
             bs1 == [bs EXCEPT ![b].strong = 0, ![b].init = FALSE, ![b].value = 0]
             bs2 == Weak_drop_all(bs1, f)
         IN [bs |-> Weak_drop(bs2, b), ws |-> ws (-) f]

Weak_upgrade_unchecked(bs, p) == p # Dangling
Weak_upgrade_unique(bs, p) == p # Dangling /\ bs[p].strong > 1

\* Weak::upgrade succeeds when the Weak points at a block whose strong count is not 0
Weak_upgrade(bs, p) == p # Dangling /\ bs[p].strong > 0

\* Pin::into_inner_unchecked / Pin::new_unchecked: only the marker changes
Pin_into_inner_unchecked(h) == [h EXCEPT !.pinned = FALSE]
Pin_new_skipped(h) == h
Pin_new_unchecked(h) == [h EXCEPT !.pinned = TRUE]

\* ---- PinWeak's queries ----

strong_count_no_sentinel(w) ==
    IF w.ptr = Dangling THEN blocks[Lowest(Blocks)].strong ELSE blocks[w.ptr].strong

\* PinWeak::strong_count = Weak::strong_count
strong_count(w) == IF w.ptr = Dangling THEN 0 ELSE blocks[w.ptr].strong

weak_count_raw(w) ==
    IF w.ptr = Dangling THEN 0
    ELSE IF blocks[w.ptr].strong > 0 THEN blocks[w.ptr].weak ELSE 0
weak_count_no_strong_test(w) ==
    IF w.ptr = Dangling THEN 0
    ELSE IF blocks[w.ptr].weak > 0 THEN blocks[w.ptr].weak - 1 ELSE 0

\* PinWeak::weak_count = Weak::weak_count: the implicit weak is not counted,
\* and 0 is reported once no strong handle is left
weak_count(w) ==
    IF w.ptr = Dangling THEN 0
    ELSE IF blocks[w.ptr].strong > 0 THEN blocks[w.ptr].weak - 1 ELSE 0

ptr_eq_by_value(a, b) ==
    LET val(w) == IF w.ptr = Dangling THEN 0 ELSE blocks[w.ptr].value
    IN val(a) = val(b)

\* PinWeak::ptr_eq = Weak::ptr_eq: the two addresses are compared
ptr_eq(a, b) == a.ptr = b.ptr

\* ---- state ----

Init ==
    /\ blocks = [b \in Blocks |-> FreeBlock]
    /\ strongs = EmptyBag
    /\ weaks = EmptyBag
    /\ building = <<>>
    /\ last = Ret("init", 0, 0, 0, FALSE)
    /\ arc = FreeArc
    /\ thr = [t \in Threads |-> Thread(0, 0)]

\* ---- operations on the strong handle (the callers' side) ----

\* let c = Rc::pin(Foo::new(v))
pin(v) ==
    /\ BagCardinality(strongs) < MaxStrong
    /\ \E b \in FreeB :
        /\ blocks' = Rc_pin(blocks, b, NewId, v)
        /\ strongs' = strongs (+) One(Handle(b, NewId, TRUE))
        /\ last' = Ret("pin", Dangling, b, v, TRUE)
    /\ UNCHANGED <<weaks, building>>
    /\ UNCHANGED sync

\* c.clone()
clone_strong(s) ==
    /\ s \in Live(strongs)
    /\ BagCardinality(strongs) < MaxStrong
    /\ blocks' = Rc_clone(blocks, s.blk)
    /\ strongs' = strongs (+) One(s)
    /\ last' = Ret("clone_strong", Dangling, s.blk, 0, TRUE)
    /\ UNCHANGED <<weaks, building>>
    /\ UNCHANGED sync

\* std::mem::drop(pinned)
drop_strong(s) ==
    /\ s \in Live(strongs)
    /\ LET r == Rc_drop(blocks, weaks, s.blk)
       IN /\ blocks' = r.bs
          /\ weaks' = r.ws
    /\ strongs' = strongs (-) One(s)
    /\ last' = Ret("drop_strong", Dangling, s.blk, SelfRefs(weaks, s.blk) - SelfRefs(weaks', s.blk), TRUE)
    /\ UNCHANGED building
    /\ UNCHANGED sync

\* ---- PinWeak ----

\* PinWeak::default()
default ==
    /\ BagCardinality(weaks) < MaxWeak
    /\ weaks' = weaks (+) One(Wrapper(Dangling, 0, "caller", 0))
    /\ last' = Ret("default", Dangling, 0, 0, TRUE)
    /\ UNCHANGED <<blocks, strongs, building>>
    /\ UNCHANGED sync

\* PinWeak::clone(&self); inside a builder the clone may become a field of
\* the value being built (Gadget { me: me.clone(), value })
clone(w, field) ==
    /\ w \in Live(weaks)
    /\ BagCardinality(weaks) < MaxWeak
    /\ field => building # <<>>
    /\ blocks' = Weak_clone(blocks, w.ptr)
    /\ weaks' = weaks (+) One(IF field
                              THEN Wrapper(w.ptr, w.id, "value", building[Len(building)])
                              ELSE Wrapper(w.ptr, w.id, "caller", 0))
    /\ last' = Ret("clone", w.ptr, 0, 0, field)
    /\ UNCHANGED <<strongs, building>>
    /\ UNCHANGED sync

\* drop of a PinWeak the caller owns
drop_weak(w) ==
    /\ w \in Live(weaks)
    /\ w.owner = "caller"
    /\ blocks' = Weak_drop(blocks, w.ptr)
    /\ weaks' = weaks (-) One(w)
    /\ last' = Ret("drop_weak", w.ptr, 0, 0, TRUE)
    /\ UNCHANGED <<strongs, building>>
    /\ UNCHANGED sync

downgrade_release_first(s) ==
    /\ s \in Live(strongs)
    /\ BagCardinality(weaks) < MaxWeak
    /\ LET rc == Pin_into_inner_unchecked(s)
           r == Rc_drop(blocks, weaks, rc.blk)
       IN /\ blocks' = Rc_downgrade(r.bs, rc.blk)
          /\ weaks' = r.ws (+) One(Wrapper(rc.blk, rc.id, "caller", 0))
          /\ last' = Ret("downgrade", rc.blk, 0, 0, TRUE)
    /\ strongs' = strongs (-) One(s)
    /\ UNCHANGED building
    /\ UNCHANGED sync

\* PinWeak::downgrade(rc): the pin marker is peeled off a temporary, the weak
\* reference is taken, and the temporary Rc is dropped at the end of the statement
downgrade(s) ==
    /\ s \in Live(strongs)
    /\ BagCardinality(weaks) < MaxWeak
    /\ LET rc == Pin_into_inner_unchecked(s)
           bs1 == Rc_downgrade(blocks, rc.blk)
           ws1 == weaks (+) One(Wrapper(rc.blk, rc.id, "caller", 0))
           r == Rc_drop(bs1, ws1, rc.blk)
       IN /\ blocks' = r.bs
          /\ weaks' = r.ws
          /\ last' = Ret("downgrade", rc.blk, 0, 0, TRUE)
    /\ strongs' = strongs (-) One(s)
    /\ UNCHANGED building
    /\ UNCHANGED sync

\* PinWeak::upgrade(&self): Weak::upgrade, and the Rc it gives is pinned
\* before it is returned
upgrade(w) ==
    /\ w \in Live(weaks)
    /\ IF Weak_upgrade(blocks, w.ptr)
       THEN /\ BagCardinality(strongs) < MaxStrong
            /\ LET rc == Handle(w.ptr, w.id, FALSE)
               IN strongs' = strongs (+) One(Pin_new_unchecked(rc))
            /\ blocks' = Rc_clone(blocks, w.ptr)
            /\ last' = Ret("upgrade", w.ptr, w.ptr, blocks[w.ptr].value, TRUE)
       ELSE /\ last' = Ret("upgrade", w.ptr, 0, 0, FALSE)
            /\ UNCHANGED <<blocks, strongs>>
    /\ UNCHANGED <<weaks, building>>
    /\ UNCHANGED sync

\* w.strong_count()
call_strong_count(w) ==
    /\ w \in Live(weaks)
    /\ last' = Ret("strong_count", w.ptr, 0, strong_count(w), TRUE)
    /\ UNCHANGED <<blocks, strongs, weaks, building>>
    /\ UNCHANGED sync

\* w.weak_count()
call_weak_count(w) ==
    /\ w \in Live(weaks)
    /\ last' = Ret("weak_count", w.ptr, 0, weak_count(w), TRUE)
    /\ UNCHANGED <<blocks, strongs, weaks, building>>
    /\ UNCHANGED sync

\* a.ptr_eq(&b)
call_ptr_eq(a, b) ==
    /\ a \in Live(weaks)
    /\ b \in Live(weaks)
    /\ last' = Ret("ptr_eq", a.ptr, b.ptr, 0, ptr_eq(a, b))
    /\ UNCHANGED <<blocks, strongs, weaks, building>>
    /\ UNCHANGED sync

\* PinWeak::new_cyclic, up to the call of data_fn: Rc::new_cyclic allocates the
\* block with strong 0 and the implicit weak, and the closure wraps a clone
\* of that Weak for the builder
new_cyclic_call ==
    /\ Len(building) < MaxNest
    /\ BagCardinality(weaks) < MaxWeak
    /\ \E b \in FreeB :
        /\ blocks' = Weak_clone(Rc_new_uninit(blocks, b, NewId), b)
        /\ weaks' = weaks (+) One(Wrapper(b, NewId, "temp", b))
        /\ building' = Append(building, b)
        /\ last' = Ret("new_cyclic_call", b, 0, 0, TRUE)
    /\ UNCHANGED strongs
    /\ UNCHANGED sync

new_cyclic_return_forgets(v) ==
    /\ building # <<>>
    /\ BagCardinality(strongs) < MaxStrong
    /\ LET b == building[Len(building)]
           rc == Handle(b, blocks[b].id, FALSE)
       IN /\ blocks' = Rc_init(blocks, b, v)
          /\ weaks' = weaks (-) One(Wrapper(b, blocks[b].id, "temp", b))
          /\ strongs' = strongs (+) One(Pin_new_unchecked(rc))
          /\ last' = Ret("new_cyclic", Dangling, b, v, TRUE)
    /\ building' = SubSeq(building, 1, Len(building) - 1)
    /\ UNCHANGED sync

\* PinWeak::new_cyclic, from the return of data_fn with the value v: the
\* wrapper handed to the builder is dropped, the value is written, the strong
\* count becomes 1 and the Rc is pinned and returned
new_cyclic_return(v) ==
    /\ building # <<>>
    /\ BagCardinality(strongs) < MaxStrong
    /\ LET b == building[Len(building)]
           bs1 == Weak_drop(blocks, b)
           rc == Handle(b, blocks[b].id, FALSE)
       IN /\ blocks' = Rc_init(bs1, b, v)
          /\ weaks' = weaks (-) One(Wrapper(b, blocks[b].id, "temp", b))
          /\ strongs' = strongs (+) One(Pin_new_unchecked(rc))
          /\ last' = Ret("new_cyclic", Dangling, b, v, TRUE)
    /\ building' = SubSeq(building, 1, Len(building) - 1)
    /\ UNCHANGED sync

Next ==
    \/ \E v \in Values : pin(v)
    \/ \E s \in Live(strongs) : clone_strong(s)
    \/ \E s \in Live(strongs) : drop_strong(s)
    \/ default
    \/ \E w \in Live(weaks), field \in BOOLEAN : clone(w, field)
    \/ \E w \in Live(weaks) : drop_weak(w)
    \/ \E s \in Live(strongs) : downgrade(s)
    \/ \E w \in Live(weaks) : upgrade(w)
    \/ \E w \in Live(weaks) : call_strong_count(w)
    \/ \E w \in Live(weaks) : call_weak_count(w)
    \/ \E a \in Live(weaks), b \in Live(weaks) : call_ptr_eq(a, b)
    \/ new_cyclic_call
    \/ \E v \in Values : new_cyclic_return(v)

Spec == Init /\ [][Next]_vars

\* ---- the sync flavour (mod sync: Rc is std::sync::Arc), two threads ----

\* Arc::clone: fetch_add on the strong count
Arc_clone(a) == [a EXCEPT !.strong = @ + 1]

Arc_release_sticky(a) == IF a.strong = 1 THEN a ELSE [a EXCEPT !.strong = @ - 1]

\* Arc::drop, first half: fetch_sub on the strong count; the caller goes on
\* to drop_slow when it read 1
Arc_release(a) == [a EXCEPT !.strong = @ - 1]

\* Arc::drop_slow, first half: the value is destroyed in place
Arc_drop_in_place(a) == [a EXCEPT !.value = "dropped", !.drops = @ + 1]

\* clone of a sync Weak: fetch_add on the weak count
ArcWeak_clone(a) == [a EXCEPT !.weak = @ + 1]

\* drop of a sync Weak (also the one all strong handles share, second half
\* of drop_slow): fetch_sub on the weak count, dealloc when it read 1
ArcWeak_drop(a) ==
    IF a.weak = 1 THEN [a EXCEPT !.weak = 0, !.alloc = FALSE]
    ELSE [a EXCEPT !.weak = @ - 1]

increment_unchecked(n) == n + 1

\* checked_increment of Weak::upgrade: 0 stands for None
checked_increment(n) == IF n = 0 THEN 0 ELSE n + 1

compare_exchange_blind(a, current, new) == TRUE

\* compare_exchange on the strong count: whether the store happens
compare_exchange(a, current, new) == a.strong = current

\* thread A holds one handle, thread B one wrapper made from it
InitSync ==
    /\ blocks = [b \in Blocks |-> FreeBlock]
    /\ strongs = EmptyBag
    /\ weaks = EmptyBag
    /\ building = <<>>
    /\ last = Ret("init", 0, 0, 0, FALSE)
    /\ arc = [alloc |-> TRUE, strong |-> 1, weak |-> 2, value |-> "live", drops |-> 0]
    /\ thr = [t \in Threads |-> IF t = "A" THEN Thread(1, 0) ELSE Thread(0, 1)]

\* thread A clones one of its handles
sync_clone_strong ==
    /\ thr["A"].pc = "idle"
    /\ thr["A"].held > 0
    /\ thr["A"].held < MaxStrong
    /\ arc' = Arc_clone(arc)
    /\ thr' = [thr EXCEPT !["A"].held = @ + 1]
    /\ UNCHANGED single

\* thread t drops a handle: the decrement; the thread that read 1 goes on to
\* destroy the value
sync_drop_strong(t) ==
    /\ thr[t].pc = "idle"
    /\ thr[t].held > 0
    /\ arc' = Arc_release(arc)
    /\ thr' = [thr EXCEPT ![t].held = @ - 1,
                          ![t].pc = IF arc.strong = 1 THEN "drop_value" ELSE "idle"]
    /\ UNCHANGED single

\* drop_slow of thread t: the value is destroyed
sync_drop_value(t) ==
    /\ thr[t].pc = "drop_value"
    /\ arc' = Arc_drop_in_place(arc)
    /\ thr' = [thr EXCEPT ![t].pc = "drop_weak"]
    /\ UNCHANGED single

\* drop_slow of thread t: the weak reference of the strong handles is released
sync_release_weak(t) ==
    /\ thr[t].pc = "drop_weak"
    /\ arc' = ArcWeak_drop(arc)
    /\ thr' = [thr EXCEPT ![t].pc = "idle"]
    /\ UNCHANGED single

\* PinWeak::upgrade on thread B, the load of the strong count
sync_upgrade_load ==
    /\ thr["B"].pc = "idle"
    /\ thr["B"].wrappers > 0
    /\ thr["B"].held = 0
    /\ thr' = [thr EXCEPT !["B"].pc = "cas", !["B"].n = arc.strong]
    /\ UNCHANGED <<arc, single>>

\* PinWeak::upgrade on thread B, one turn of the update loop: None on a
\* count of 0, else the compare-and-swap; a new handle is pinned before it
\* is returned, a failed swap reloads
sync_upgrade_cas ==
    /\ thr["B"].pc = "cas"
    /\ LET n == thr["B"].n
           new == checked_increment(n)
       IN IF new = 0
          THEN /\ thr' = [thr EXCEPT !["B"].pc = "idle", !["B"].res = "empty"]
               /\ UNCHANGED arc
          ELSE IF compare_exchange(arc, n, new)
          THEN /\ arc' = [arc EXCEPT !.strong = new]
               /\ thr' = [thr EXCEPT !["B"].pc = "idle", !["B"].res = "some",
                                     !["B"].held = @ + 1,
                                     !["B"].pinned = Pin_new_unchecked(Handle(1, 1, FALSE)).pinned]
          ELSE /\ thr' = [thr EXCEPT !["B"].n = arc.strong]
               /\ UNCHANGED arc
    /\ UNCHANGED single

\* PinWeak::clone on thread B
sync_clone ==
    /\ thr["B"].pc = "idle"
    /\ thr["B"].wrappers > 0
    /\ thr["B"].wrappers < MaxWeak
    /\ arc' = ArcWeak_clone(arc)
    /\ thr' = [thr EXCEPT !["B"].wrappers = @ + 1]
    /\ UNCHANGED single

\* thread B drops a wrapper; its last one once an upgrade has returned None
sync_drop_weak ==
    /\ thr["B"].pc = "idle"
    /\ thr["B"].wrappers > 0
    /\ thr["B"].wrappers > 1 \/ thr["B"].res = "empty"
    /\ arc' = ArcWeak_drop(arc)
    /\ thr' = [thr EXCEPT !["B"].wrappers = @ - 1]
    /\ UNCHANGED single

NextSync ==
    \/ sync_clone_strong
    \/ \E t \in Threads : sync_drop_strong(t)
    \/ \E t \in Threads : sync_drop_value(t)
    \/ \E t \in Threads : sync_release_weak(t)
    \/ sync_upgrade_load
    \/ sync_upgrade_cas
    \/ sync_clone
    \/ sync_drop_weak

SpecSync == InitSync /\ [][NextSync]_vars

\* thread B's loop: it calls upgrade() and drops the handle it gets
observer_loop ==
    \/ sync_upgrade_load
    \/ sync_upgrade_cas
    \/ sync_drop_strong("B")
    \/ sync_drop_value("B")
    \/ sync_release_weak("B")

\* thread B's loop is always scheduled again, and a drop that has started
\* on thread A runs to its end
SpecSyncFair ==
    /\ SpecSync
    /\ WF_vars(observer_loop)
    /\ WF_vars(sync_drop_value("A") \/ sync_release_weak("A"))

\* ---- what the claims speak of ----

\* the live strong handles / wrappers of the allocation with identity i
HandlesOf(i) ==
    BagCardinality([h \in {x \in Live(strongs) : x.id = i} |-> strongs[h]])
WrappersOf(i) ==
    BagCardinality([w \in {x \in Live(weaks) : x.id = i} |-> weaks[w]])
\* the live strong handles that point at address b
HandlesAt(b) ==
    BagCardinality([h \in {x \in Live(strongs) : x.blk = b} |-> strongs[h]])
\* the live wrappers that point at address b
WrappersAt(b) ==
    BagCardinality([w \in {x \in Live(weaks) : x.ptr = b} |-> weaks[w]])
\* the counts a wrapper of the block at address p reports
ReportedStrong(p) == strong_count([ptr |-> p])
ReportedWeak(p) == weak_count([ptr |-> p])
UnderConstruction(p) == \E k \in 1..Len(building) : building[k] = p
\* a and b are two wrappers (two of a kind, or of two kinds)
TwoWrappers(a, b) == a # b \/ weaks[a] >= 2

\* C1: a wrapper of a target upgrades to a handle exactly while a pinned
\* strong handle to the target is live, and to nothing once all are dropped;
\* a call of upgrade() returns accordingly
C1_UpgradeWhileStrongLive ==
    /\ [](\A w \in Live(weaks) :
            w.id # 0 => (Weak_upgrade(blocks, w.ptr) <=> HandlesOf(w.id) > 0))
    /\ [][\A w \in Live(weaks) :
            (last'.op = "upgrade" /\ w.id # 0 /\ upgrade(w)) =>
                (last'.ok <=> HandlesOf(w.id) > 0)]_vars
\* an upgrade has just failed on a wrapper whose target was destroyed, while
\* a wrapper of another, live target still upgrades
C1_Witness ==
    /\ last.op = "upgrade" /\ ~last.ok /\ last.p # Dangling
    /\ ~UnderConstruction(last.p)
    /\ \E w \in Live(weaks) : w.ptr = last.p /\ w.owner = "caller" /\ HandlesOf(w.id) = 0
    /\ \E w \in Live(weaks) : w.ptr # last.p /\ HandlesOf(w.id) > 0
                              /\ Weak_upgrade(blocks, w.ptr)

\* C2: every strong handle the caller holds is pinned, and no other strong
\* reference is left over from a call: each block's strong count is the
\* number of handles the caller holds
C2_PinPreserved ==
    /\ \A h \in Live(strongs) : h.pinned
    /\ \A b \in Blocks : blocks[b].strong = HandlesAt(b)
\* upgrade has just returned a second handle to a target built by new_cyclic
\* that also has a wrapper made by the caller
C2_Witness ==
    /\ last.op = "upgrade" /\ last.ok
    /\ HandlesAt(last.q) = 2
    /\ \E w \in Live(weaks) : w.ptr = last.q /\ w.owner = "value"
    /\ \E w \in Live(weaks) : w.ptr = last.q /\ w.owner = "caller"

\* C3: while a strong handle to the target is live, every wrapper of it
\* reports the number of live strong handles and the number of live wrappers
C3_CountsWhileLive ==
    /\ \A w \in Live(weaks) :
        (w.id # 0 /\ HandlesOf(w.id) >= 1) =>
            /\ strong_count(w) = HandlesOf(w.id)
            /\ weak_count(w) = WrappersOf(w.id)
    /\ \A w \in Live(weaks) :
        (w.ptr = last.p /\ w.id # 0 /\ HandlesOf(w.id) >= 1) =>
            /\ last.op = "strong_count" => last.n = HandlesOf(w.id)
            /\ last.op = "weak_count" => last.n = WrappersOf(w.id)
\* weak_count() has just returned 2 for a target with one handle, two wrappers
C3_Witness ==
    /\ last.op = "weak_count" /\ last.n = 2
    /\ \E w \in Live(weaks) :
        w.ptr = last.p /\ HandlesOf(w.id) = 1 /\ WrappersOf(w.id) = 2
                       /\ strong_count(w) = 1

\* C4 as claimed: every downgrade(s) raises the reported weak count by
\* exactly one, also when s is the last handle; dropping a wrapper of a live
\* target lowers it by one
C4_Original ==
    [][/\ \A s \in Live(strongs) :
            (last'.op = "downgrade" /\ downgrade(s)) =>
                ReportedWeak(s.blk)' = ReportedWeak(s.blk) + 1
       /\ \A w \in Live(weaks) :
            (last'.op = "drop_weak" /\ drop_weak(w) /\ w.id # 0 /\ HandlesOf(w.id) >= 1) =>
                ReportedWeak(w.ptr)' = ReportedWeak(w.ptr) - 1]_vars
\* C4 amended: downgrade(s) raises the reported weak count by exactly one
\* when a strong handle to the target is left after the call; when s was the
\* last one the reported weak count is 0 after the call.  Dropping a wrapper
\* of a target with a live strong handle lowers it by exactly one
C4_WeakCountSteps ==
    [][/\ \A s \in Live(strongs) :
            (last'.op = "downgrade" /\ downgrade(s)) =>
                IF HandlesOf(s.id) >= 2
                THEN ReportedWeak(s.blk)' = ReportedWeak(s.blk) + 1
                ELSE ReportedWeak(s.blk)' = 0
       /\ \A w \in Live(weaks) :
            (last'.op = "drop_weak" /\ drop_weak(w) /\ w.id # 0 /\ HandlesOf(w.id) >= 1) =>
                ReportedWeak(w.ptr)' = ReportedWeak(w.ptr) - 1]_vars
\* downgrade of a clone has just made the second wrapper of a live target
C4_Witness ==
    /\ last.op = "downgrade"
    /\ HandlesAt(last.p) = 1
    /\ ReportedWeak(last.p) = 2

\* C5: once the last strong handle is gone, every wrapper of the target
\* upgrades to nothing and reports 0 for both counts, however many wrappers
\* are live
C5_Expired ==
    \A w \in Live(weaks) :
        (w.id # 0 /\ HandlesOf(w.id) = 0 /\ ~UnderConstruction(w.ptr)) =>
            /\ ~Weak_upgrade(blocks, w.ptr)
            /\ strong_count(w) = 0
            /\ weak_count(w) = 0
\* the last handle has just been passed to downgrade, which returned the
\* second live wrapper of the target
C5_Witness ==
    /\ last.op = "downgrade"
    /\ HandlesAt(last.p) = 0
    /\ \E w \in Live(weaks) : w.ptr = last.p /\ w.owner = "caller" /\ WrappersOf(w.id) = 2

\* C6 as claimed: with the strong count 0 and a wrapper live, upgrade gives
\* nothing, weak_count() is positive and the block is not freed
C6_Original ==
    \A w \in Live(weaks) :
        (w.id # 0 /\ HandlesOf(w.id) = 0 /\ ~UnderConstruction(w.ptr)) =>
            /\ ~Weak_upgrade(blocks, w.ptr)
            /\ weak_count(w) > 0
            /\ blocks[w.ptr].alloc
\* C6 amended: with the strong count 0 and a wrapper live, upgrade gives
\* nothing, weak_count() reports 0 although the block's own weak reference
\* count is still positive, and the block is not freed
C6_Dying ==
    \A w \in Live(weaks) :
        (w.id # 0 /\ HandlesOf(w.id) = 0) =>
            /\ ~Weak_upgrade(blocks, w.ptr)
            /\ weak_count(w) = 0
            /\ blocks[w.ptr].weak >= 1
            /\ blocks[w.ptr].alloc /\ blocks[w.ptr].id = w.id
\* weak_count() has just returned 0 on one of two wrappers of a destroyed value
C6_Witness ==
    /\ last.op = "weak_count" /\ last.n = 0 /\ last.p # Dangling
    /\ ~UnderConstruction(last.p)
    /\ blocks[last.p].strong = 0 /\ blocks[last.p].weak = 2
    /\ ~blocks[last.p].init

\* C7: a wrapper from default(), and each clone of it, points at no
\* allocation: it upgrades to nothing and reports 0 for both counts
C7_Default ==
    /\ \A w \in Live(weaks) :
        w.id = 0 =>
            /\ w.ptr = Dangling
            /\ ~Weak_upgrade(blocks, w.ptr)
            /\ strong_count(w) = 0
            /\ weak_count(w) = 0
    /\ (last.p = Dangling /\ last.op \in {"strong_count", "weak_count"}) => last.n = 0
    /\ (last.p = Dangling /\ last.op = "upgrade") => ~last.ok
\* strong_count() has just been called on a default wrapper while a target
\* with two strong handles and a wrapper is live
C7_Witness ==
    /\ last.op = "strong_count" /\ last.p = Dangling
    /\ \E w \in Live(weaks) : w.id = 0
    /\ \E w \in Live(weaks) : w.id # 0 /\ HandlesOf(w.id) = 2

\* C8 as claimed: ptr_eq of two live wrappers is true exactly when both
\* reference the same control block
C8_Original ==
    \A a \in Live(weaks), b \in Live(weaks) :
        TwoWrappers(a, b) => (ptr_eq(a, b) <=> (a.id # 0 /\ a.id = b.id))
\* C8 amended: ptr_eq of two live wrappers is true exactly when both
\* reference the same control block or both reference no allocation
\* (default wrappers and their clones)
C8_PtrEq ==
    /\ \A a \in Live(weaks), b \in Live(weaks) :
        TwoWrappers(a, b) => (ptr_eq(a, b) <=> (a.id = b.id))
    /\ last.op = "ptr_eq" =>
        \A a \in Live(weaks), b \in Live(weaks) :
            (a.ptr = last.p /\ b.ptr = last.q) => (last.ok <=> (a.id = b.id))
\* ptr_eq has just returned true for two wrappers of a destroyed target
C8_Witness ==
    /\ last.op = "ptr_eq" /\ last.ok /\ last.p # Dangling
    /\ blocks[last.p].strong = 0 /\ ~UnderConstruction(last.p)
    /\ \E w \in Live(weaks) : w.ptr = last.p /\ w.owner = "caller" /\ weaks[w] = 2

\* C9: while a strong handle s to the target is live, upgrade() of a wrapper
\* made by downgrade from a handle to that target returns a handle equal to
\* s (same block, same allocation, pinned), and the value read through it is
\* the value behind s
C9_RoundTrip ==
    /\ [](\A w \in Live(weaks), s \in Live(strongs) :
            (w.id = s.id) => (Weak_upgrade(blocks, w.ptr) /\ w.ptr = s.blk
                              /\ blocks[s.blk].id = s.id /\ blocks[s.blk].init))
    /\ [][\A s \in Live(strongs) :
            (last'.op = "downgrade" /\ downgrade(s)) =>
                Wrapper(s.blk, s.id, "caller", 0) \in Live(weaks')]_vars
    /\ [][\A w \in Live(weaks), s \in Live(strongs) :
            (last'.op = "upgrade" /\ w.id = s.id /\ upgrade(w)) =>
                /\ last'.ok
                /\ strongs' = strongs (+) One(s)
                /\ last'.q = s.blk
                /\ last'.n = blocks[s.blk].value
                /\ blocks'[s.blk].value = blocks[s.blk].value]_vars
\* upgrade has just returned a second handle to the value 44 for a wrapper
\* made by downgrade, the wrapper of another target being live as well
C9_Witness ==
    /\ last.op = "upgrade" /\ last.ok /\ last.n = 44
    /\ HandlesAt(last.q) = 2
    /\ \E w \in Live(weaks) : w.ptr = last.q /\ w.owner = "caller"
    /\ \E w \in Live(weaks) : w.ptr # last.q /\ w.id # 0

\* C10: an upgrade() that returns a handle adds exactly one to the strong
\* count and nothing to the weak count, an upgrade() that returns nothing
\* changes no count; dropping a handle takes exactly one off the strong
\* count, and while any handle is left the value is alive and upgrade succeeds
C10_UpgradeEffect ==
    [][/\ \A w \in Live(weaks) :
            (last'.op = "upgrade" /\ upgrade(w)) =>
                IF last'.ok
                THEN /\ blocks' = [blocks EXCEPT ![w.ptr].strong = @ + 1]
                     /\ ReportedWeak(w.ptr)' = ReportedWeak(w.ptr)
                     /\ HandlesOf(w.id)' = HandlesOf(w.id) + 1
                ELSE blocks' = blocks /\ strongs' = strongs
       /\ \A s \in Live(strongs) :
            (last'.op = "drop_strong" /\ drop_strong(s)) =>
                /\ ReportedStrong(s.blk)' = ReportedStrong(s.blk) - 1
                /\ HandlesOf(s.id) >= 2 =>
                    (blocks'[s.blk].init /\ Weak_upgrade(blocks', s.blk))]_vars
\* after an upgrade and the drop of another handle, the only handle left
\* keeps the value alive
C10_Witness ==
    /\ last.op = "drop_strong"
    /\ HandlesAt(last.q) = 1
    /\ blocks[last.q].strong = 1 /\ blocks[last.q].init
    /\ \E w \in Live(weaks) : w.ptr = last.q /\ Weak_upgrade(blocks, w.ptr)

\* C11: a clone of a wrapper points at the same control block and upgrades
\* exactly when the wrapper does; a clone adds one weak reference and
\* nothing else, the drop of one of several wrappers takes it off again, so
\* that clone followed by drop leaves every count and every upgrade as before
C11_CloneThenDrop ==
    /\ [](\A w \in Live(weaks) : Weak_drop(Weak_clone(blocks, w.ptr), w.ptr) = blocks)
    /\ [][\A w \in Live(weaks), f \in BOOLEAN :
            (last'.op = "clone" /\ clone(w, f)) =>
                /\ \E c \in Live(weaks') :
                    /\ weaks' = weaks (+) One(c)
                    /\ c.id = w.id /\ ptr_eq(c, w)
                    /\ Weak_upgrade(blocks', c.ptr) <=> Weak_upgrade(blocks, w.ptr)
                /\ \A x \in Live(weaks) :
                    /\ strong_count(x)' = strong_count(x)
                    /\ Weak_upgrade(blocks', x.ptr) <=> Weak_upgrade(blocks, x.ptr)
                /\ w.ptr # Dangling =>
                    blocks' = [blocks EXCEPT ![w.ptr].weak = @ + 1]]_vars
    /\ [][\A c \in Live(weaks) :
            (last'.op = "drop_weak" /\ drop_weak(c) /\ WrappersOf(c.id) >= 2) =>
                /\ c.ptr # Dangling =>
                    blocks' = [blocks EXCEPT ![c.ptr].weak = @ - 1]
                /\ \A x \in Live(weaks') :
                    /\ strong_count(x)' = strong_count(x)
                    /\ Weak_upgrade(blocks', x.ptr) <=> Weak_upgrade(blocks, x.ptr)]_vars
\* a wrapper of a live target has just been cloned: two of a kind, both upgrade
C11_Witness ==
    /\ last.op = "clone" /\ last.p # Dangling
    /\ \E w \in Live(weaks) :
        w.ptr = last.p /\ weaks[w] = 2 /\ Weak_upgrade(blocks, w.ptr)
                       /\ weak_count(w) = 2

Quiet == {"upgrade", "strong_count", "weak_count", "ptr_eq", "clone_strong",
          "default", "pin", "new_cyclic_call"}

\* C12 as claimed: only the clone and the drop of a wrapper change the weak
\* count a target reports
C12_Original ==
    [][\A p \in Blocks :
        last'.op \notin {"clone", "drop_weak"} => ReportedWeak(p)' = ReportedWeak(p)]_vars
\* C12 amended: the reported weak count of a target changes only with the
\* number of its live wrappers while a strong handle is live before and after
\* (clone and downgrade add one, a wrapper dropped by the caller or with the
\* value that stores it takes one off), becomes 0 when the last strong handle
\* is dropped (also by downgrade) and becomes the number of wrappers the
\* builder kept when new_cyclic returns; upgrade, strong_count, weak_count,
\* ptr_eq and the drop of a strong handle that is not the last never change it
C12_WeakCountFrame ==
    [][\A p \in Blocks :
        \/ blocks'[p] = blocks[p] /\ weaks' = weaks /\ ReportedWeak(p)' = ReportedWeak(p)
        \/ /\ last'.op \in Quiet => ReportedWeak(p)' = ReportedWeak(p)
           /\ (last'.op = "drop_strong" /\ blocks'[last'.q].strong > 0) =>
                   ReportedWeak(p)' = ReportedWeak(p)
           /\ (blocks[p].strong > 0 /\ blocks'[p].strong > 0) =>
                   ReportedWeak(p)' - ReportedWeak(p) = WrappersAt(p)' - WrappersAt(p)
           /\ blocks'[p].strong = 0 => ReportedWeak(p)' = 0
           /\ (blocks[p].strong = 0 /\ blocks'[p].strong > 0) =>
                   ReportedWeak(p)' = WrappersAt(p)']_vars
\* downgrade of a clone has just raised the reported weak count of a target
\* built by new_cyclic, whose value stores a wrapper, to 2
C12_Witness ==
    /\ last.op = "downgrade"
    /\ blocks[last.p].strong = 1
    /\ ReportedWeak(last.p) = 2
    /\ \E w \in Live(weaks) : w.ptr = last.p /\ w.owner = "value"

\* C13: while the builder of new_cyclic runs, the wrapper it was given and
\* every clone of it upgrade to nothing; upgrade of such a wrapper can
\* succeed only from the return of new_cyclic on
C13_NoUpgradeInBuilder ==
    /\ [](\A w \in Live(weaks) :
            UnderConstruction(w.ptr) =>
                (~Weak_upgrade(blocks, w.ptr) /\ ~blocks[w.ptr].init))
    /\ [][\A w \in Live(weaks) :
            (last'.op = "upgrade" /\ upgrade(w) /\ UnderConstruction(w.ptr)) =>
                (~last'.ok /\ strongs' = strongs /\ blocks' = blocks)]_vars
    /\ [][\A p \in Blocks :
            (UnderConstruction(p) /\ Weak_upgrade(blocks', p)) =>
                (last'.op = "new_cyclic" /\ last'.q = p /\ ~UnderConstruction(p)')]_vars
\* inside the builder, upgrade has just returned nothing, the wrapper given
\* to the builder and a clone of it being live
C13_Witness ==
    /\ last.op = "upgrade" /\ ~last.ok /\ last.p # Dangling
    /\ UnderConstruction(last.p)
    /\ \E w \in Live(weaks) : w.ptr = last.p /\ w.owner = "temp"
    /\ \E w \in Live(weaks) : w.ptr = last.p /\ w.owner # "temp"

\* C14: a clone of the builder's wrapper that is stored in the value points,
\* once new_cyclic has returned, at the allocation of the returned handle:
\* it upgrades to a pinned handle equal to the returned one, is ptr_eq to a
\* downgrade of it, and the value read through it is the builder's value
C14_SelfReference ==
    /\ [](\A w \in Live(weaks) :
            (w.owner = "value" /\ w.home = w.ptr /\ ~UnderConstruction(w.ptr)) =>
                /\ Weak_upgrade(blocks, w.ptr)
                /\ blocks[w.ptr].init /\ blocks[w.ptr].id = w.id
                /\ \E h \in Live(strongs) :
                    /\ h = Pin_new_unchecked(Handle(w.ptr, w.id, FALSE))
                    /\ ptr_eq(w, Wrapper(h.blk, h.id, "caller", 0))
                /\ (last.op = "new_cyclic" /\ last.q = w.ptr) =>
                    /\ blocks[w.ptr].value = last.n
                    /\ blocks[w.ptr].strong = 1)
    /\ [][\A w \in Live(weaks) :
            (last'.op = "upgrade" /\ upgrade(w)
             /\ w.owner = "value" /\ w.home = w.ptr /\ ~UnderConstruction(w.ptr)) =>
                /\ last'.ok
                /\ \E h \in Live(strongs) : h.blk = w.ptr /\ strongs' = strongs (+) One(h)
                /\ last'.n = blocks[w.ptr].value]_vars
\* upgrade of the wrapper stored in a value built by new_cyclic has just
\* returned a second handle to that value, 44
C14_Witness ==
    /\ last.op = "upgrade" /\ last.ok /\ last.n = 44
    /\ WrappersAt(last.p) = 1
    /\ \E w \in Live(weaks) : w.ptr = last.p /\ w.owner = "value" /\ w.home = last.p
    /\ HandlesAt(last.p) = 2

\* C17: every live wrapper holds exactly one weak reference of an allocated
\* block that is still the allocation it was made for (so do the strong
\* handles, which share one more), and a block that no handle and no
\* wrapper refers to is freed
C17_OneWeakPerWrapper ==
    /\ \A w \in Live(weaks) :
        w.ptr # Dangling => (blocks[w.ptr].alloc /\ blocks[w.ptr].id = w.id)
    /\ \A h \in Live(strongs) :
        blocks[h.blk].alloc /\ blocks[h.blk].id = h.id /\ blocks[h.blk].init
    /\ \A b \in Blocks :
        blocks[b].alloc =>
            /\ blocks[b].weak = WrappersAt(b)
                    + (IF blocks[b].strong > 0 \/ UnderConstruction(b) THEN 1 ELSE 0)
            /\ HandlesAt(b) + WrappersAt(b) > 0
    /\ \A b \in Blocks : ~blocks[b].alloc => blocks[b] = FreeBlock
\* the drop of the last wrapper, after the last strong handle, has just
\* freed a block, while another target has a wrapper and no handle
C17_Witness ==
    /\ last.op = "drop_weak" /\ last.p # Dangling
    /\ ~blocks[last.p].alloc
    /\ \E w \in Live(weaks) : w.ptr # Dangling /\ HandlesAt(w.ptr) = 0
                              /\ blocks[w.ptr].weak = 1

\* C18: downgrade(s) takes exactly one off the strong count and leaves the
\* block allocated with the returned wrapper pointing at it; when s was the
\* last handle the value is destroyed by the call and the returned wrapper
\* is expired.  (c.clone() adds one, so downgrade(c.clone()) adds nothing.)
C18_DowngradeOrder ==
    [][/\ \A s \in Live(strongs) :
            (last'.op = "downgrade" /\ downgrade(s)) =>
                /\ ReportedStrong(s.blk)' = ReportedStrong(s.blk) - 1
                /\ blocks'[s.blk].alloc /\ blocks'[s.blk].id = s.id
                /\ blocks'[s.blk].weak >= 1
                /\ Wrapper(s.blk, s.id, "caller", 0) \in Live(weaks')
                /\ IF HandlesOf(s.id) = 1
                   THEN /\ blocks[s.blk].init /\ ~blocks'[s.blk].init
                        /\ ~Weak_upgrade(blocks', s.blk)
                        /\ ReportedStrong(s.blk)' = 0 /\ ReportedWeak(s.blk)' = 0
                   ELSE blocks'[s.blk].init /\ Weak_upgrade(blocks', s.blk)
       /\ \A s \in Live(strongs) :
            (last'.op = "clone_strong" /\ clone_strong(s)) =>
                ReportedStrong(s.blk)' = ReportedStrong(s.blk) + 1]_vars
\* the only handle has just been passed to downgrade: the value is gone and
\* the returned wrapper, the only one, keeps the block
C18_Witness ==
    /\ last.op = "downgrade"
    /\ HandlesAt(last.p) = 0 /\ WrappersAt(last.p) = 1
    /\ blocks[last.p].alloc /\ ~blocks[last.p].init /\ blocks[last.p].weak = 1

\* C19: right after new_cyclic returns, the wrapper made for the builder is
\* gone, strong_count() is 1 and weak_count() is the number of wrappers the
\* builder kept
C19_NewCyclicNoLeak ==
    last.op = "new_cyclic" =>
        /\ ReportedStrong(last.q) = 1 /\ HandlesAt(last.q) = 1
        /\ ReportedWeak(last.q) = WrappersAt(last.q)
        /\ blocks[last.q].weak = WrappersAt(last.q) + 1
        /\ \A w \in Live(weaks) : ~(w.owner = "temp" /\ w.home = last.q)
\* new_cyclic has just returned a value that stores one clone of the wrapper
C19_Witness ==
    /\ last.op = "new_cyclic"
    /\ ReportedWeak(last.q) = 1
    /\ \E w \in Live(weaks) : w.ptr = last.q /\ w.owner = "value" /\ w.home = last.q

\* C20: when the last strong handle of a value that stores a wrapper of
\* itself is dropped, the value is destroyed and the wrappers it stores are
\* dropped with it, and the block is freed unless another wrapper of the
\* target is live
C20_NoCycle ==
    [][\A s \in Live(strongs) :
        (last'.op = "drop_strong" /\ drop_strong(s) /\ HandlesOf(s.id) = 1
         /\ \E w \in Live(weaks) : w.owner = "value" /\ w.home = s.blk /\ w.ptr = s.blk) =>
            /\ ~blocks'[s.blk].init
            /\ \A w \in Live(weaks') : ~(w.owner = "value" /\ w.home = s.blk)
            /\ \A w \in Live(weaks') : w.ptr # s.blk => weaks'[w] = weaks[w]
            /\ IF \E w \in Live(weaks) : w.ptr = s.blk /\ ~(w.owner = "value" /\ w.home = s.blk)
               THEN blocks'[s.blk].alloc /\ blocks'[s.blk].weak = WrappersAt(s.blk)'
               ELSE blocks'[s.blk] = FreeBlock]_vars
\* the drop of the only handle of a value that stored a wrapper of itself
\* has just freed the block
C20_Witness ==
    /\ last.op = "drop_strong" /\ last.n = 1
    /\ ~blocks[last.q].alloc
    /\ \A w \in Live(weaks) : w.ptr # last.q

\* C15: (sync flavour) however upgrade() on one thread interleaves with the
\* drop of the last strong handle on another, upgrade returns None or a
\* pinned handle; the value is alive while any strong handle is held, so a
\* handle upgrade returned keeps it until that handle is dropped; and the
\* value is destroyed exactly once
C15_UpgradeRace ==
    /\ thr["B"].res \in {"none", "empty", "some"}
    /\ thr["B"].held > 0 => thr["B"].res = "some" /\ thr["B"].pinned
    /\ arc.strong = thr["A"].held + thr["B"].held
    /\ arc.strong > 0 => arc.alloc /\ arc.value = "live" /\ arc.drops = 0
    /\ arc.drops <= 1
    /\ arc.value = "dropped" <=> arc.drops = 1
    /\ (arc.strong = 0 /\ \A t \in Threads : thr[t].pc # "drop_value") => arc.drops = 1
    /\ thr["B"].wrappers > 0 => arc.alloc
    /\ arc.alloc => arc.weak = thr["B"].wrappers
            + (IF arc.strong > 0 \/ \E t \in Threads : thr[t].pc # "idle" /\ thr[t].pc # "cas"
               THEN 1 ELSE 0)
    /\ ~arc.alloc => thr["B"].wrappers = 0 /\ arc.strong = 0
\* thread A has just taken the last strong count to 0 while thread B, which
\* read a positive count, is about to compare and swap
C15_Witness ==
    /\ thr["A"].pc = "drop_value"
    /\ thr["B"].pc = "cas" /\ thr["B"].n > 0
    /\ arc.strong = 0 /\ arc.value = "live"

\* C16: (sync flavour) once thread A holds no handle, thread B's upgrade()
\* returns None after at most the one handle B holds is dropped, and from
\* the first None on the strong count stays 0 and no upgrade succeeds
C16_EventuallyEmpty ==
    /\ [](thr["B"].held <= 1)
    /\ (thr["A"].held = 0) ~> (thr["B"].res = "empty")
    /\ [](thr["B"].res = "empty" => [](thr["B"].res = "empty" /\ arc.strong = 0))
\* thread A's handles are gone, thread B has seen None and is upgrading again
C16_Witness ==
    /\ thr["A"].held = 0
    /\ thr["B"].res = "empty"
    /\ thr["B"].pc = "cas"
    /\ arc.value = "dropped"

====
